---------------------------- MODULE Spec2Model ----------------------------
(***************************************************************************)
(* Circular-scroll input processors of zmk-config-cirque.                  *)
(*                                                                         *)
(*   src/modules/circular_scroll.c                 pointer,  gain 10/1024  *)
(*   src/modules/circular_scroll/circular_scroll.c trackpad, gain  1/1024  *)
(*                                                                         *)
(* Each file keeps one static tracker {active, prev_angle}, a pure         *)
(* pseudo-angle estimator and a process callback.  The C arithmetic is     *)
(* modelled with its widths: int and unsigned int are 32 bits (the ARM     *)
(* targets ZMK builds for), int16_t/uint16_t stores wrap modulo 2^16 (the  *)
(* implementation-defined conversion of GCC), and a signed int overflow    *)
(* (undefined behaviour) is a choice among the outcomes a build can give.  *)
(*                                                                         *)
(* Specifications:                                                         *)
(*   Spec       both devices active, the callbacks called in any order     *)
(*   SpecSolo   one device active, on the full set of samples              *)
(*   SpecLockstep  both devices handed the same events, one after the other *)
(*   SpecRun    one device fed pointing samples, with the sample history   *)
(*   SpecAngle  the two estimators applied to drawn (dx, dy)               *)
(*   SpecDelta  the two delta computations applied to drawn angles         *)
(***************************************************************************)
EXTENDS Integers, FiniteSets, Sequences, TLC

VARIABLES
    cs_state,   \* static struct circular_scroll_state cs_state
    tp_state,   \* static struct trackpad_scroll_state tp_state
    event,      \* the zmk_input_event of the last call, as the callback left it
    ret,        \* the value the last call returned
    call,       \* the last call: its callback, its argument, the tracker before
                \* it, the return statement it took and its locals
    fn,         \* pure-function harness: the function applied ("none" before)
    arg,        \* pure-function harness: its two arguments
    res         \* pure-function harness: its result
                \* (under SpecRun the three hold the history of the samples)

vars == <<cs_state, tp_state, event, ret, call, fn, arg, res>>

---------------------------------------------------------------------------
(* C integer types *)

INT16_MIN == -32768
INT16_MAX == 32767

Int16 == INT16_MIN..INT16_MAX

\* value of x stored into a uint16_t
ToUint16(x) == x % 65536

\* value of x stored into an int16_t (modulo 2^16, two's complement)
ToInt16(x) == IF x % 65536 >= 32768 THEN (x % 65536) - 65536 ELSE x % 65536

INT32_MAX == 2147483647

(* An unsigned int (32 bits) is kept as its two 16-bit halves <<hi, lo>>,  *)
(* value hi * 2^16 + lo, so that no number of the model exceeds INT32_MAX. *)

\* conversion of the int x to unsigned int (modulo 2^32)
ToUint32(x) == <<(x \div 65536) % 65536, x % 65536>>

\* u * k modulo 2^32, for a small constant k
U32Mul(u, k) == <<(u[1] * k + ((u[2] * k) \div 65536)) % 65536, (u[2] * k) % 65536>>

\* the four bytes of u, most significant first
U32Bytes(u) == <<u[1] \div 256, u[1] % 256, u[2] \div 256, u[2] % 256>>

\* remainder left after dividing the first n bytes of u by s
RECURSIVE U32Rem(_, _, _)
U32Rem(u, s, n) == IF n = 0 THEN 0 ELSE (U32Rem(u, s, n - 1) * 256 + U32Bytes(u)[n]) % s

\* byte n of the quotient u / s
U32QuotByte(u, s, n) == (U32Rem(u, s, n - 1) * 256 + U32Bytes(u)[n]) \div s

\* unsigned division u / s for a divisor 0 < s < 2^16 (s promoted to
\* unsigned): long division byte by byte, each quotient byte below 256
U32Div(u, s) ==
    <<U32QuotByte(u, s, 1) * 256 + U32QuotByte(u, s, 2),
      U32QuotByte(u, s, 3) * 256 + U32QuotByte(u, s, 4)>>

\* value of the unsigned int u stored into a uint16_t
U32ToUint16(u) == u[2]

\* abs() of <stdlib.h> on an int holding an int16_t value
CAbs(x) == IF x < 0 THEN -x ELSE x

\* C's signed division by a positive divisor: truncates toward zero
CDiv(a, b) == IF a >= 0 THEN a \div b ELSE -((-a) \div b)

---------------------------------------------------------------------------
(* The pseudo-angle estimators *)

\* pseudo_angle with its locals, each as the code stores it
pseudo_angle_locals(dx, dy) ==
    LET ax    == ToInt16(CAbs(dx))                   \* int16_t ax = abs(dx)
        ay    == ToInt16(CAbs(dy))                   \* int16_t ay = abs(dy)
        sum   == ToUint16(ax + ay)                   \* uint16_t sum = ax + ay
        prod  == U32Mul(ToUint32(ay), 1024)          \* ay * 1024U
        quot  == IF sum = 0 THEN <<0, 0>> ELSE U32Div(prod, sum)
        ratio == U32ToUint16(quot)                   \* uint16_t ratio = ... / sum
        \* the unsigned sums below are stored into a uint16_t: arithmetic
        \* modulo 2^32 followed by the store is arithmetic modulo 2^16
        angle == IF sum = 0 THEN 0
                 ELSE IF dx >= 0 /\ dy >= 0 THEN ratio
                 ELSE IF dx < 0 /\ dy >= 0 THEN ToUint16(1024 + (1024 - ratio))
                 ELSE IF dx < 0 /\ dy < 0 THEN ToUint16(2048 + ratio)
                 ELSE ToUint16(3072 + (1024 - ratio))
    IN [ax |-> ax, ay |-> ay, sum |-> sum, prod |-> prod, quot |-> quot,
        ratio |-> ratio, angle |-> angle]

\* mutant: the first quadrant taken as dx > 0 instead of dx >= 0
pseudo_angle_strict_quadrant(dx, dy) ==
    LET ratio == pseudo_angle_locals(dx, dy).ratio
    IN IF pseudo_angle_locals(dx, dy).sum = 0 THEN 0
       ELSE IF dx > 0 /\ dy >= 0 THEN ratio
       ELSE IF dx < 0 /\ dy >= 0 THEN ToUint16(1024 + (1024 - ratio))
       ELSE IF dx < 0 /\ dy < 0 THEN ToUint16(2048 + ratio)
       ELSE ToUint16(3072 + (1024 - ratio))

\* mutant: ay * 1024 kept in 16 bits before the division
pseudo_angle_narrow_product(dx, dy) ==
    LET l == pseudo_angle_locals(dx, dy)
        ratio == IF l.sum = 0 THEN 0 ELSE ToUint16(l.ay * 1024) \div l.sum
    IN IF l.sum = 0 THEN 0
       ELSE IF dx >= 0 /\ dy >= 0 THEN ratio
       ELSE IF dx < 0 /\ dy >= 0 THEN ToUint16(1024 + (1024 - ratio))
       ELSE IF dx < 0 /\ dy < 0 THEN ToUint16(2048 + ratio)
       ELSE ToUint16(3072 + (1024 - ratio))

pseudo_angle(dx, dy) == pseudo_angle_locals(dx, dy).angle

\* compute_pseudo_angle with its locals (the trackpad file's copy)
compute_pseudo_angle_locals(dx, dy) ==
    LET adx   == ToInt16(CAbs(dx))                   \* int16_t adx = abs(dx)
        ady   == ToInt16(CAbs(dy))                   \* int16_t ady = abs(dy)
        sum   == ToUint16(adx + ady)                 \* uint16_t sum = adx + ady
        prod  == U32Mul(ToUint32(ady), 1024)         \* ady * 1024U
        quot  == IF sum = 0 THEN <<0, 0>> ELSE U32Div(prod, sum)
        ratio == U32ToUint16(quot)
        angle == IF sum = 0 THEN 0
                 ELSE IF dx >= 0 /\ dy >= 0 THEN ratio
                 ELSE IF dx < 0 /\ dy >= 0 THEN ToUint16(1024 + (1024 - ratio))
                 ELSE IF dx < 0 /\ dy < 0 THEN ToUint16(2048 + ratio)
                 ELSE ToUint16(3072 + (1024 - ratio))
    IN [ax |-> adx, ay |-> ady, sum |-> sum, prod |-> prod, quot |-> quot,
        ratio |-> ratio, angle |-> angle]

compute_pseudo_angle(dx, dy) == compute_pseudo_angle_locals(dx, dy).angle

\* the calls  uint16_t angle = pseudo_angle(dx, dy)  and
\* uint16_t angle = compute_pseudo_angle(dx, dy)  of the two callbacks
cs_angle == [s \in Int16 \X Int16 |-> pseudo_angle(s[1], s[2])]
tp_angle == [s \in Int16 \X Int16 |-> compute_pseudo_angle(s[1], s[2])]

---------------------------------------------------------------------------
(* The trackers *)

ZMK_INPUT_EVENT_TYPE_POINTING == "POINTING"
ZMK_POINTING_EVENT_SCROLL == "SCROLL"

\* mutant: the 5-unit threshold left unsquared
cs_dead_zone_unsquared(mag_sq) == mag_sq < 5

\* const int32_t dead_zone_sq = 25; if (mag_sq < dead_zone_sq), in each file
cs_dead_zone(mag_sq) == mag_sq < 25
tp_dead_zone(mag_sq) == mag_sq < 25

\* mutant: the trackpad's scaling in the pointer file
cs_scroll_value_of_trackpad(delta) == CDiv(delta * 1, 1024)

\* int scroll_value = (delta * 10) / 1024;  and  (delta * 1) / 1024
cs_scroll_value(delta) == CDiv(delta * 10, 1024)
tp_scroll_value(delta) == CDiv(delta * 1, 1024)

\* int32_t mag_sq = dx * dx + dy * dy, computed in int.  Each square is at
\* most 2^30; their sum overflows int only for dx = dy = -32768, which is
\* undefined behaviour: a build may wrap it to -2^31, or compile the test
\* that follows on the assumption that the sum of two squares did not
\* overflow (any value it then takes is large and positive).
MagSqOutcomes(dx, dy) ==
    IF dx * dx > INT32_MAX - dy * dy
    THEN {(dx * dx - INT32_MAX - 1) + (dy * dy - INT32_MAX - 1), INT32_MAX}
    ELSE {dx * dx + dy * dy}

\* mutant: the difference without its wraparound correction
cs_delta_uncorrected(angle, prev_angle) ==
    ToInt16(ToInt16(angle) - ToInt16(prev_angle))

\* mutant: the difference clamped to half a turn instead of wrapped
cs_delta_clamped(angle, prev_angle) ==
    LET delta == ToInt16(ToInt16(angle) - ToInt16(prev_angle))
    IN IF delta > 2048 THEN 2048
       ELSE IF delta < -2048 THEN -2048
       ELSE delta

\* the wraparound-corrected difference of the pointer file:
\*   int16_t delta = (int16_t)angle - (int16_t)cs_state.prev_angle;
\*   if (delta > 2048) delta -= 4096; else if (delta < -2048) delta += 4096;
cs_delta(angle, prev_angle) ==
    LET delta == ToInt16(ToInt16(angle) - ToInt16(prev_angle))
    IN IF delta > 2048 THEN ToInt16(delta - 4096)
       ELSE IF delta < -2048 THEN ToInt16(delta + 4096)
       ELSE delta

\* the same lines of the trackpad file
tp_delta(angle, prev_angle) ==
    LET delta == ToInt16(ToInt16(angle) - ToInt16(prev_angle))
    IN IF delta > 2048 THEN ToInt16(delta - 4096)
       ELSE IF delta < -2048 THEN ToInt16(delta + 4096)
       ELSE delta

\* mutant: circular_scroll_process without its check of the event type
circular_scroll_process_step_untyped(st, ev, mag_sq) ==
    LET dx == ev.dx
        dy == ev.dy
        angle == cs_angle[<<dx, dy>>]
        delta == cs_delta(angle, st.prev_angle)
        scroll_value == cs_scroll_value(delta)
    IN IF cs_dead_zone(mag_sq)
       THEN [state |-> [st EXCEPT !.active = FALSE], event |-> ev, ret |-> 0,
             path |-> "dead",
             mag_sq |-> mag_sq, angle |-> 0, delta |-> 0, scroll_value |-> 0]
       ELSE IF ~st.active
       THEN [state |-> [active |-> TRUE, prev_angle |-> angle], event |-> ev,
             ret |-> 0, path |-> "baseline",
             mag_sq |-> mag_sq, angle |-> angle, delta |-> 0, scroll_value |-> 0]
       ELSE [state |-> [st EXCEPT !.prev_angle = angle],
             event |-> [ev EXCEPT !.dx = 0, !.dy = scroll_value,
                                  !.ptype = ZMK_POINTING_EVENT_SCROLL],
             ret |-> 1, path |-> "track",
             mag_sq |-> mag_sq, angle |-> angle, delta |-> delta,
             scroll_value |-> scroll_value]

\* circular_scroll_process on tracker st and event ev, mag_sq being the
\* value the build computed: the tracker and the event it leaves, the value
\* it returns, the return statement taken and the locals computed on the way
circular_scroll_process_step(st, ev, mag_sq) ==
    LET dx == ev.dx
        dy == ev.dy
        angle == cs_angle[<<dx, dy>>]
        delta == cs_delta(angle, st.prev_angle)
        scroll_value == cs_scroll_value(delta)
    IN IF ev.type # ZMK_INPUT_EVENT_TYPE_POINTING
       THEN [state |-> st, event |-> ev, ret |-> 0, path |-> "ignored",
             mag_sq |-> 0, angle |-> 0, delta |-> 0, scroll_value |-> 0]
       ELSE IF cs_dead_zone(mag_sq)
       THEN [state |-> [st EXCEPT !.active = FALSE], event |-> ev, ret |-> 0,
             path |-> "dead",
             mag_sq |-> mag_sq, angle |-> 0, delta |-> 0, scroll_value |-> 0]
       ELSE IF ~st.active
       THEN [state |-> [active |-> TRUE, prev_angle |-> angle], event |-> ev,
             ret |-> 0, path |-> "baseline",
             mag_sq |-> mag_sq, angle |-> angle, delta |-> 0, scroll_value |-> 0]
       ELSE [state |-> [st EXCEPT !.prev_angle = angle],
             event |-> [ev EXCEPT !.dx = 0, !.dy = scroll_value,
                                  !.ptype = ZMK_POINTING_EVENT_SCROLL],
             ret |-> 1, path |-> "track",
             mag_sq |-> mag_sq, angle |-> angle, delta |-> delta,
             scroll_value |-> scroll_value]

\* trackpad_scroll_process, likewise
trackpad_scroll_process_step(st, ev, mag_sq) ==
    LET dx == ev.dx
        dy == ev.dy
        angle == tp_angle[<<dx, dy>>]
        delta == tp_delta(angle, st.prev_angle)
        scroll_value == tp_scroll_value(delta)
    IN IF ev.type # ZMK_INPUT_EVENT_TYPE_POINTING
       THEN [state |-> st, event |-> ev, ret |-> 0, path |-> "ignored",
             mag_sq |-> 0, angle |-> 0, delta |-> 0, scroll_value |-> 0]
       ELSE IF tp_dead_zone(mag_sq)
       THEN [state |-> [st EXCEPT !.active = FALSE], event |-> ev, ret |-> 0,
             path |-> "dead",
             mag_sq |-> mag_sq, angle |-> 0, delta |-> 0, scroll_value |-> 0]
       ELSE IF ~st.active
       THEN [state |-> [active |-> TRUE, prev_angle |-> angle], event |-> ev,
             ret |-> 0, path |-> "baseline",
             mag_sq |-> mag_sq, angle |-> angle, delta |-> 0, scroll_value |-> 0]
       ELSE [state |-> [st EXCEPT !.prev_angle = angle],
             event |-> [ev EXCEPT !.dx = 0, !.dy = scroll_value,
                                  !.ptype = ZMK_POINTING_EVENT_SCROLL],
             ret |-> 1, path |-> "track",
             mag_sq |-> mag_sq, angle |-> angle, delta |-> delta,
             scroll_value |-> scroll_value]

---------------------------------------------------------------------------
(* The events the host pipeline delivers *)

\* radius of the grid of small displacements around rest
Small == 1

RestSamples == (-Small..Small) \X (-Small..Small)

\* either side of the dead-zone threshold dx^2 + dy^2 = 25
ThresholdSamples == {<<2, 2>>, <<4, 2>>, <<3, 4>>, <<-4, -3>>, <<5, 0>>, <<0, -5>>}

\* the four axes and the four diagonals
CardinalSamples == {<<10, 0>>, <<0, 10>>, <<-10, 0>>, <<0, -10>>}
DiagonalSamples == {<<10, 10>>, <<-10, 10>>, <<-10, -10>>, <<10, -10>>}

\* directions close to the positive x axis, on either side of it, and the
\* two directions of angle 4000 and 100
ShallowSamples ==
    {<<1024, -1>>, <<1023, -1>>, <<10, -1>>, <<10, 1>>, <<29, -3>>, <<92, 10>>}

\* the ends of the int16 range
ExtremeSamples ==
    {<<INT16_MAX, INT16_MAX>>, <<INT16_MIN, INT16_MIN>>, <<0, INT16_MIN>>,
     <<1024, INT16_MIN>>, <<INT16_MIN, 0>>, <<INT16_MAX, INT16_MIN>>,
     <<INT16_MIN, INT16_MAX>>}

Samples ==
    RestSamples \cup ThresholdSamples \cup CardinalSamples \cup DiagonalSamples
        \cup ShallowSamples \cup ExtremeSamples

\* pointing events carry a sample; an event of another type carries other
\* data in the same storage
PointingEvents ==
    {[type |-> ZMK_INPUT_EVENT_TYPE_POINTING, dx |-> s[1], dy |-> s[2], ptype |-> "MOVE"]
        : s \in Samples}

OtherEvents ==
    {[type |-> "KEY", dx |-> s[1], dy |-> s[2], ptype |-> "MOVE"]
        : s \in CardinalSamples}

Events == PointingEvents \cup OtherEvents

\* the events of the runs in which both devices are active
JointSamples ==
    {<<0, 0>>, <<2, 2>>, <<3, 4>>, <<10, 0>>, <<0, 10>>, <<-10, 0>>, <<0, -10>>,
     <<1024, -1>>, <<INT16_MIN, INT16_MIN>>, <<1024, INT16_MIN>>}

JointEvents ==
    {e \in Events : <<e.dx, e.dy>> \in JointSamples
                    /\ (e.type = ZMK_INPUT_EVENT_TYPE_POINTING \/ e.dx = 0)}

---------------------------------------------------------------------------
(* The program *)

NoEvent == [type |-> "NONE", dx |-> 0, dy |-> 0, ptype |-> "NONE"]

NoCall ==
    [proc |-> "none", event |-> NoEvent, pre |-> [active |-> FALSE, prev_angle |-> 0],
     path |-> "none", mag_sq |-> 0, angle |-> 0, delta |-> 0, scroll_value |-> 0]

Idle == fn = "none" /\ arg = <<0, 0>> /\ res = 0

\* the static initialisers of cs_state and tp_state
Init ==
    /\ cs_state = [active |-> FALSE, prev_angle |-> 0]
    /\ tp_state = [active |-> FALSE, prev_angle |-> 0]
    /\ event = NoEvent
    /\ ret = 0
    /\ call = NoCall
    /\ Idle

circular_scroll_init ==
    /\ cs_state' = [active |-> FALSE, prev_angle |-> 0]
    /\ ret' = 0
    /\ call' = [NoCall EXCEPT !.proc = "cs", !.pre = cs_state, !.path = "init"]
    /\ UNCHANGED <<tp_state, event, fn, arg, res>>

trackpad_scroll_init ==
    /\ tp_state' = [active |-> FALSE, prev_angle |-> 0]
    /\ ret' = 0
    /\ call' = [NoCall EXCEPT !.proc = "tp", !.pre = tp_state, !.path = "init"]
    /\ UNCHANGED <<cs_state, event, fn, arg, res>>

\* mutant: the pointer callback working on the tracker of the trackpad file,
\* as if the two files shared one static state
circular_scroll_process_shared(ev) ==
    \E mag_sq \in MagSqOutcomes(ev.dx, ev.dy) :
        LET r == circular_scroll_process_step(tp_state, ev, mag_sq)
        IN /\ tp_state' = r.state
           /\ event' = r.event
           /\ ret' = r.ret
           /\ call' = [proc |-> "cs", event |-> ev, pre |-> tp_state,
                       path |-> r.path, mag_sq |-> r.mag_sq, angle |-> r.angle,
                       delta |-> r.delta, scroll_value |-> r.scroll_value]
           /\ UNCHANGED <<cs_state, fn, arg, res>>

circular_scroll_process(ev) ==
    \E mag_sq \in MagSqOutcomes(ev.dx, ev.dy) :
        LET r == circular_scroll_process_step(cs_state, ev, mag_sq)
        IN /\ cs_state' = r.state
           /\ event' = r.event
           /\ ret' = r.ret
           /\ call' = [proc |-> "cs", event |-> ev, pre |-> cs_state,
                       path |-> r.path, mag_sq |-> r.mag_sq, angle |-> r.angle,
                       delta |-> r.delta, scroll_value |-> r.scroll_value]
           /\ UNCHANGED <<tp_state, fn, arg, res>>

trackpad_scroll_process(ev) ==
    \E mag_sq \in MagSqOutcomes(ev.dx, ev.dy) :
        LET r == trackpad_scroll_process_step(tp_state, ev, mag_sq)
        IN /\ tp_state' = r.state
           /\ event' = r.event
           /\ ret' = r.ret
           /\ call' = [proc |-> "tp", event |-> ev, pre |-> tp_state,
                       path |-> r.path, mag_sq |-> r.mag_sq, angle |-> r.angle,
                       delta |-> r.delta, scroll_value |-> r.scroll_value]
           /\ UNCHANGED <<cs_state, fn, arg, res>>

\* both devices active: the host pipeline calls either processor at any time
Next ==
    \/ circular_scroll_init
    \/ trackpad_scroll_init
    \/ \E ev \in JointEvents : circular_scroll_process(ev)
    \/ \E ev \in JointEvents : trackpad_scroll_process(ev)

Spec == Init /\ [][Next]_vars

\* one device active: every call goes to the processor the first call went to
SoloNext ==
    \/ call.proc # "tp" /\ circular_scroll_init
    \/ call.proc # "tp" /\ \E ev \in Events : circular_scroll_process(ev)
    \/ call.proc # "cs" /\ trackpad_scroll_init
    \/ call.proc # "cs" /\ \E ev \in Events : trackpad_scroll_process(ev)

SpecSolo == Init /\ [][SoloNext]_vars

\* both devices fed the same events: the host hands each event, and each
\* re-initialisation, to the pointer file and then to the trackpad file
LockstepNext ==
    \/ call.proc # "cs" /\ circular_scroll_init
    \/ call.proc = "cs" /\ call.path = "init" /\ trackpad_scroll_init
    \/ call.proc # "cs" /\ \E ev \in Events : circular_scroll_process(ev)
    \/ call.proc = "cs" /\ call.path # "init" /\ trackpad_scroll_process(call.event)

SpecLockstep == Init /\ [][LockstepNext]_vars

---------------------------------------------------------------------------
(* The pure functions on their own: Init draws the arguments, one action   *)
(* per function applies it.                                                *)

\* how far around each breakpoint the arguments are drawn
Near == 5
Edge == 3

AxisValues ==
    (-Near..Near) \cup {-92, -29, -10, 10, 29, 92}
        \cup {1024 + d : d \in -1..1} \cup {-1024 + d : d \in -1..1}
        \cup {4096 * k : k \in -7..7}
        \cup {INT16_MAX - 1, INT16_MAX, INT16_MIN + 1, INT16_MIN}

\* previous pseudo-angles: the multiples of 32, the neighbourhoods of 0,
\* 2048 and 4096, and the two angles 100 and 4000
AngleValues ==
    {a \in 0..4095 : \/ a % 32 = 0
                     \/ a % 2048 <= Edge
                     \/ a % 2048 >= 2048 - Edge
                     \/ a \in {100, 4000}}

TrackersAtRest ==
    /\ cs_state = [active |-> FALSE, prev_angle |-> 0]
    /\ tp_state = [active |-> FALSE, prev_angle |-> 0]
    /\ event = NoEvent
    /\ ret = 0
    /\ call = NoCall

AngleInit ==
    /\ TrackersAtRest
    /\ fn = "none"
    /\ arg \in AxisValues \X AxisValues
    /\ res = 0

apply_pseudo_angle ==
    /\ fn = "none"
    /\ fn' = "pseudo_angle"
    /\ res' = cs_angle[arg]
    /\ UNCHANGED <<cs_state, tp_state, event, ret, call, arg>>

apply_compute_pseudo_angle ==
    /\ fn = "none"
    /\ fn' = "compute_pseudo_angle"
    /\ res' = tp_angle[arg]
    /\ UNCHANGED <<cs_state, tp_state, event, ret, call, arg>>

AngleNext == apply_pseudo_angle \/ apply_compute_pseudo_angle

SpecAngle == AngleInit /\ [][AngleNext]_vars

\* arg = <<angle, prev_angle>>: every new angle against the drawn previous ones
DeltaInit ==
    /\ TrackersAtRest
    /\ fn = "none"
    /\ arg \in (0..4095) \X AngleValues
    /\ res = 0

apply_cs_delta ==
    /\ fn = "none"
    /\ fn' = "cs_delta"
    /\ res' = cs_delta(arg[1], arg[2])
    /\ UNCHANGED <<cs_state, tp_state, event, ret, call, arg>>

apply_tp_delta ==
    /\ fn = "none"
    /\ fn' = "tp_delta"
    /\ res' = tp_delta(arg[1], arg[2])
    /\ UNCHANGED <<cs_state, tp_state, event, ret, call, arg>>

DeltaNext == apply_cs_delta \/ apply_tp_delta

SpecDelta == DeltaInit /\ [][DeltaNext]_vars

---------------------------------------------------------------------------
(* One device fed pointing samples only, with the history of the samples   *)
(* kept beside the program's state: fn tells whether the sample of the     *)
(* last call was the first since init ("first") or not ("later"), arg is   *)
(* the sample before it, and res describes the active period of the        *)
(* tracker that the last sample belongs to.                                *)

\* the longest active period, in samples
MaxRun == 3

RunSamples ==
    {<<0, 0>>, <<2, 2>>, <<3, 4>>, <<6, 8>>, <<10, 0>>, <<0, 10>>, <<-10, 0>>,
     <<0, -10>>, <<10, 1>>, <<-99, -10>>, <<1024, -1>>,
     <<INT16_MIN, INT16_MIN>>, <<1024, INT16_MIN>>}

RunEvents ==
    {[type |-> ZMK_INPUT_EVENT_TYPE_POINTING, dx |-> s[1], dy |-> s[2], ptype |-> "MOVE"]
        : s \in RunSamples}

\* dx^2 + dy^2 < 25 over the integers
BelowDeadZone(ev) ==
    ev.dx \in -4..4 /\ ev.dy \in -4..4 /\ ev.dx * ev.dx + ev.dy * ev.dy < 25

\* no run: the tracker is inactive
NoRun == [len |-> 0, base |-> 0, sum |-> 0]

\* the run after a call with result r (the record of a process step): an
\* active period of the tracker, with len samples so far, base the angle
\* stored by the baseline step and sum the corrected differences of the
\* tracking steps since, modulo 4096
RunAfter(run, r) ==
    IF ~r.state.active THEN NoRun
    ELSE IF r.ret = 0 THEN [len |-> 1, base |-> r.angle, sum |-> 0]
    ELSE [len |-> run.len + 1, base |-> run.base,
          sum |-> (run.sum + r.delta) % 4096]

RunInit ==
    /\ TrackersAtRest
    /\ fn = "none"
    /\ arg = <<0, 0>>
    /\ res = NoRun

circular_scroll_process_run(ev) ==
    /\ BelowDeadZone(ev) \/ res.len < MaxRun
    /\ \E mag_sq \in MagSqOutcomes(ev.dx, ev.dy) :
          LET r == circular_scroll_process_step(cs_state, ev, mag_sq)
          IN /\ cs_state' = r.state
             /\ event' = r.event
             /\ ret' = r.ret
             /\ call' = [proc |-> "cs", event |-> ev, pre |-> cs_state,
                         path |-> r.path, mag_sq |-> r.mag_sq, angle |-> r.angle,
                         delta |-> r.delta, scroll_value |-> r.scroll_value]
             /\ fn' = IF call.proc = "none" THEN "first" ELSE "later"
             /\ arg' = <<call.event.dx, call.event.dy>>
             /\ res' = RunAfter(res, r)
             /\ UNCHANGED tp_state

trackpad_scroll_process_run(ev) ==
    /\ BelowDeadZone(ev) \/ res.len < MaxRun
    /\ \E mag_sq \in MagSqOutcomes(ev.dx, ev.dy) :
          LET r == trackpad_scroll_process_step(tp_state, ev, mag_sq)
          IN /\ tp_state' = r.state
             /\ event' = r.event
             /\ ret' = r.ret
             /\ call' = [proc |-> "tp", event |-> ev, pre |-> tp_state,
                         path |-> r.path, mag_sq |-> r.mag_sq, angle |-> r.angle,
                         delta |-> r.delta, scroll_value |-> r.scroll_value]
             /\ fn' = IF call.proc = "none" THEN "first" ELSE "later"
             /\ arg' = <<call.event.dx, call.event.dy>>
             /\ res' = RunAfter(res, r)
             /\ UNCHANGED cs_state

RunNext ==
    \/ call.proc # "tp" /\ \E ev \in RunEvents : circular_scroll_process_run(ev)
    \/ call.proc # "cs" /\ \E ev \in RunEvents : trackpad_scroll_process_run(ev)

SpecRun == RunInit /\ [][RunNext]_vars

---------------------------------------------------------------------------
(* Vocabulary of the properties *)

PseudoAngle == 0..4095

\* the last step was a call of a process callback
Processed == call.path \in {"ignored", "dead", "baseline", "track"}

\* ... on a pointing event
Sampled == Processed /\ call.event.type = ZMK_INPUT_EVENT_TYPE_POINTING

\* the tracker, the estimator and the gain of the callback called last
Tracker == IF call.proc = "cs" THEN cs_state ELSE tp_state
Estimate(e) == IF call.proc = "cs" THEN cs_angle[<<e.dx, e.dy>>] ELSE tp_angle[<<e.dx, e.dy>>]
Locals(e) == IF call.proc = "cs" THEN pseudo_angle_locals(e.dx, e.dy)
             ELSE compute_pseudo_angle_locals(e.dx, e.dy)
Gain == IF call.proc = "cs" THEN 10 ELSE 1

\* dx^2 + dy^2 < 25 over the integers (either coordinate beyond 4 excludes it)
InDeadZone(e) ==
    /\ e.dx \in -4..4
    /\ e.dy \in -4..4
    /\ e.dx * e.dx + e.dy * e.dy < 25

Magnitude(x) == IF x < 0 THEN -x ELSE x

\* a / b rounded toward zero, b > 0
TruncDiv(a, b) == IF a < 0 THEN -((-a) \div b) ELSE a \div b

\* the shortest signed path from prev to angle around the 4096-unit circle
ShortestPath(angle, prev) ==
    IF angle - prev > 2048 THEN angle - prev - 4096
    ELSE IF angle - prev < -2048 THEN angle - prev + 4096
    ELSE angle - prev

PointingSample(dx, dy) ==
    [type |-> ZMK_INPUT_EVENT_TYPE_POINTING, dx |-> dx, dy |-> dy, ptype |-> "MOVE"]

Active(a) == [active |-> TRUE, prev_angle |-> a]

\* a tracking step of the pointer from Active(pre) on (dx, dy): a quarter turn
\* to the given angle, reported as scroll value 10
QuarterTurn(pre, dx, dy, angle) ==
    (call.proc = "cs" /\ call.pre = Active(pre) /\ call.event = PointingSample(dx, dy))
        => /\ ret = 1
           /\ call.angle = angle
           /\ call.delta = 1024
           /\ event.dy = 10
           /\ cs_state = Active(angle)

\* the factors by which a sample is scaled
MaxScale == 8

ScaleFactors == (1..MaxScale) \cup {100, 1024, INT16_MAX}

\* the coordinates whose absolute value fits int16_t
NonOverflowing == -INT16_MAX..INT16_MAX

---------------------------------------------------------------------------
(* C1.  For every dx, dy in the int16 range the angle estimator returns a  *)
(* value in [0, 4096).  Stated of both copies of the estimator; the code   *)
(* returns 4096 for (1024, -1) and 5120 for (0, -32768).                   *)
C1_AngleInRange ==
    fn \in {"pseudo_angle", "compute_pseudo_angle"} => res \in PseudoAngle

(* C2.  In every reachable state the stored prev_angle of each tracker is  *)
(* a pseudo-angle: it lies in [0, 4096).  The code stores the estimator's  *)
(* result unchecked, 4096 and beyond included.                             *)
C2_PrevAngleValid ==
    /\ cs_state.prev_angle \in PseudoAngle
    /\ tp_state.prev_angle \in PseudoAngle

(* C3.  Dead zone: whatever the tracker was before, a pointing sample with *)
(* dx^2 + dy^2 < 25 makes process return 0 and leaves the tracker          *)
(* inactive.                                                               *)
C3_DeadZone ==
    (Sampled /\ InDeadZone(call.event)) => (ret = 0 /\ ~Tracker.active)

C3_Witness ==
    /\ Sampled
    /\ call.event = PointingSample(2, 2)
    /\ call.pre = Active(1024)
    /\ ret = 0
    /\ ~Tracker.active

(* C4.  Baseline suppression: a tracker is inactive after init, and an     *)
(* inactive tracker given a sample with dx^2 + dy^2 >= 25 returns 0,       *)
(* becomes active and stores that sample's estimated angle as prev_angle.  *)
(* The code treats (-32768, -32768) as a dead-zone sample when the         *)
(* overflowing dx*dx + dy*dy wraps.                                        *)
C4_BaselineSuppression ==
    /\ call.path = "none" => (~cs_state.active /\ ~tp_state.active)
    /\ call.path = "init" => ~Tracker.active
    /\ (Sampled /\ ~InDeadZone(call.event) /\ ~call.pre.active)
          => /\ ret = 0
             /\ Tracker = Active(Estimate(call.event))

(* C5.  Tracking step: an active tracker given a sample with               *)
(* dx^2 + dy^2 >= 25 returns 1 with the scroll value                       *)
(* (delta * gain) / 1024, truncated toward zero, delta being the           *)
(* wraparound-corrected difference of the new angle and prev_angle and     *)
(* gain 10 (pointer) or 1 (trackpad); prev_angle becomes the new angle and *)
(* the tracker stays active.                                               *)
C5_TrackingStep ==
    (Sampled /\ ~InDeadZone(call.event) /\ call.pre.active)
        => /\ ret = 1
           /\ event.dy = TruncDiv(ShortestPath(Estimate(call.event), call.pre.prev_angle) * Gain, 1024)
           /\ Tracker = Active(Estimate(call.event))

(* C6.  Wraparound correctness: for pseudo-angles prev_angle and angle the *)
(* corrected delta is congruent to angle - prev_angle modulo 4096 and is   *)
(* the shortest signed path (raw - 4096 above 2048, raw + 4096 below       *)
(* -2048, raw otherwise); prev_angle 4000 and angle 100 give 196.          *)
C6_Wraparound ==
    fn \in {"cs_delta", "tp_delta"}
        => /\ (res - (arg[1] - arg[2])) % 4096 = 0
           /\ res \in -2048..2048
           /\ res = ShortestPath(arg[1], arg[2])
           /\ arg = <<100, 4000>> => res = 196

C6_Witness == fn = "cs_delta" /\ arg = <<100, 4000>> /\ res = 196

(* C7.  Delta bound: in every tracking step the corrected delta lies in    *)
(* [-2048, 2048].  After (10, 0) the sample (1024, -32768) has the code    *)
(* estimate the angle 9061 and report delta 4965.                          *)
C7_DeltaBound ==
    call.path = "track" => call.delta \in -2048..2048

(* C8.  No arithmetic overflow: for every int16 dx, dy each intermediate   *)
(* of process and of the estimator keeps its mathematical value in the     *)
(* type that holds it: |dx|, |dy| in int16, |dx| + |dy| in uint16,         *)
(* |dy| * 1024, the ratio (in [0, 1024]), dx*dx + dy*dy in int32 and       *)
(* angle - prev_angle in int16.  abs(-32768) does not fit int16_t, and     *)
(* (-32768)^2 + (-32768)^2 does not fit int.                               *)
C8_NoOverflow ==
    LET e == call.event
        l == Locals(e)
        adx == Magnitude(e.dx)
        ady == Magnitude(e.dy)
    IN /\ Sampled
          => /\ e.dx * e.dx <= INT32_MAX - e.dy * e.dy
             /\ call.mag_sq = e.dx * e.dx + e.dy * e.dy
       /\ call.path \in {"baseline", "track"}
          => /\ l.ax = adx
             /\ l.ay = ady
             /\ l.sum = adx + ady
             /\ l.prod = ToUint32(ady * 1024)
             /\ l.sum # 0 => l.ratio = (ady * 1024) \div (adx + ady)
             /\ l.ratio \in 0..1024
       /\ call.path = "track"
          => /\ call.angle \in 0..INT16_MAX
             /\ call.pre.prev_angle \in 0..INT16_MAX
             /\ call.angle - call.pre.prev_angle \in Int16

(* C9.  Cardinal directions: the estimator returns 0 for (1, 0), 1024 for  *)
(* (0, 1), 2048 for (-1, 0), 3072 for (0, -1), and 0 for (0, 0), where the *)
(* sum == 0 guard leaves the division out.                                 *)
C9_Cardinal ==
    fn \in {"pseudo_angle", "compute_pseudo_angle"}
        => /\ arg = <<1, 0>> => res = 0
           /\ arg = <<0, 1>> => res = 1024
           /\ arg = <<-1, 0>> => res = 2048
           /\ arg = <<0, -1>> => res = 3072
           /\ arg = <<0, 0>> => res = 0

C9_Witness == fn = "compute_pseudo_angle" /\ arg = <<0, -1>> /\ res = 3072

(* C10.  Steady rotation yields steady scroll on the pointer: from         *)
(* inactive, (10, 0) gives no output and Active with prev_angle 0; then    *)
(* (0, 10) gives angle 1024, delta 1024, scroll 10; (-10, 0) gives angle   *)
(* 2048, delta 1024, scroll 10; (0, -10) and (10, 0) carry on across the   *)
(* 0/4096 boundary with scroll 10.  Each step starts in the state the step *)
(* before it ends in.                                                      *)
C10_SteadyRotation ==
    /\ (call.proc = "cs" /\ ~call.pre.active /\ call.event = PointingSample(10, 0))
          => (ret = 0 /\ event = call.event /\ cs_state = Active(0))
    /\ QuarterTurn(0, 0, 10, 1024)
    /\ QuarterTurn(1024, -10, 0, 2048)
    /\ QuarterTurn(2048, 0, -10, 3072)
    /\ QuarterTurn(3072, 10, 0, 0)

C10_Witness ==
    /\ call.proc = "cs"
    /\ call.pre = Active(3072)
    /\ call.event = PointingSample(10, 0)
    /\ call.delta = 1024
    /\ event.dy = 10
    /\ cs_state = Active(0)

(* C11.  Instance isolation: a call of the pointer callbacks leaves        *)
(* tp_state as it was and a call of the trackpad callbacks leaves cs_state *)
(* as it was, and in every interleaving of the two process functions the   *)
(* tracker, the event and the return value a call leaves are those its own *)
(* file computes from its own tracker and the event alone.                 *)
C11_Isolation ==
    [][/\ call'.proc = "cs"
          => /\ tp_state' = tp_state
             /\ call'.path = "init" => cs_state' = [active |-> FALSE, prev_angle |-> 0]
             /\ call'.path # "init"
                   => \E m \in MagSqOutcomes(call'.event.dx, call'.event.dy) :
                         LET r == circular_scroll_process_step(cs_state, call'.event, m)
                         IN cs_state' = r.state /\ event' = r.event /\ ret' = r.ret
       /\ call'.proc = "tp"
          => /\ cs_state' = cs_state
             /\ call'.path = "init" => tp_state' = [active |-> FALSE, prev_angle |-> 0]
             /\ call'.path # "init"
                   => \E m \in MagSqOutcomes(call'.event.dx, call'.event.dy) :
                         LET r == trackpad_scroll_process_step(tp_state, call'.event, m)
                         IN tp_state' = r.state /\ event' = r.event /\ ret' = r.ret
      ]_vars

\* the pointer tracks from 1024 to 2048 while the trackpad stays at 3072
C11_Witness ==
    /\ call.proc = "cs"
    /\ call.pre = Active(1024)
    /\ call.path = "track"
    /\ cs_state = Active(2048)
    /\ tp_state = Active(3072)
    /\ event.dy = 10

C13_NoStaleBaseline ==
    Sampled
        => LET cur == call.event
               before == PointingSample(arg[1], arg[2])
               both == fn = "later" /\ ~InDeadZone(before) /\ ~InDeadZone(cur)
           IN /\ ret = 1 <=> both
              /\ ret = 1
                    => event.dy = TruncDiv(ShortestPath(Estimate(cur), Estimate(before)) * Gain,
                                           1024)

(* C14.  Effect on the event: process returns 1 exactly on a tracking step *)
(* (active tracker, dx^2 + dy^2 >= 25) and then leaves the event with      *)
(* dx = 0, dy = the scroll value and the pointing type SCROLL; on a        *)
(* dead-zone or baseline sample it returns 0 and leaves the event as it    *)
(* was.  The code returns 0 on (-32768, -32768) from an active tracker     *)
(* when dx*dx + dy*dy wraps.                                               *)
C14_EventEffect ==
    Sampled
        => /\ ret \in {0, 1}
           /\ ret = 1 <=> (call.pre.active /\ ~InDeadZone(call.event))
           /\ ret = 1
                 => event = [call.event EXCEPT !.dx = 0, !.dy = call.scroll_value,
                                               !.ptype = ZMK_POINTING_EVENT_SCROLL]
           /\ ret = 0 => event = call.event

(* C15.  An event whose type is not the pointing type is ignored: process  *)
(* returns 0, the event is as it was, and active and prev_angle are as     *)
(* they were, so that such events between the pointing samples change      *)
(* nothing of what the tracker does later.                                 *)
C15_OtherEventsIgnored ==
    (Processed /\ call.event.type # "POINTING")
        => /\ ret = 0
           /\ event = call.event
           /\ Tracker = call.pre

\* a key event carrying (-10, 0) on the pointer tracking at 1024
C15_Witness ==
    /\ call.proc = "cs"
    /\ call.event = [type |-> "KEY", dx |-> -10, dy |-> 0, ptype |-> "MOVE"]
    /\ call.pre = Active(1024)
    /\ ret = 0
    /\ event = call.event
    /\ cs_state = Active(1024)

(* C16.  Quadrant ranges: for every sample other than (0, 0) the estimate  *)
(* lies in [0, 1024) when dx >= 0 and dy >= 0, in [1024, 2048) when dx < 0 *)
(* and dy >= 0, in [2048, 3072) when dx < 0 and dy < 0, and in             *)
(* [3072, 4096) when dx >= 0 and dy < 0.  The code returns 4096 for        *)
(* (1024, -1), 1024 for (0, 1) and 2048 for (-1, 0).                       *)
C16_Quadrants ==
    (fn \in {"pseudo_angle", "compute_pseudo_angle"} /\ arg # <<0, 0>>)
        => LET dx == arg[1]
               dy == arg[2]
           IN /\ (dx >= 0 /\ dy >= 0) => res \in 0..1023
              /\ (dx < 0 /\ dy >= 0) => res \in 1024..2047
              /\ (dx < 0 /\ dy < 0) => res \in 2048..3071
              /\ (dx >= 0 /\ dy < 0) => res \in 3072..4095

(* C17.  One-directional scroll: of two consecutive samples v1, v2 with    *)
(* dx^2 + dy^2 >= 25 processed while the tracker is active, if v2 lies     *)
(* counterclockwise of v1 by less than half a turn                         *)
(* (dx1*dy2 - dy1*dx2 > 0) the emitted value is not negative, and if it    *)
(* lies clockwise (dx1*dy2 - dy1*dx2 < 0) the emitted value is not         *)
(* positive.  After (10, 1) the sample (-99, -10), clockwise of it, has    *)
(* the code emit 20 on the pointer.                                        *)
C17_OneDirection ==
    LET v1 == PointingSample(arg[1], arg[2])
        v2 == call.event
    IN (Sampled /\ fn = "later" /\ ~InDeadZone(v1) /\ ~InDeadZone(v2) /\ ret = 1)
          => /\ v1.dx * v2.dy > v1.dy * v2.dx => event.dy >= 0
             /\ v1.dx * v2.dy < v1.dy * v2.dx => event.dy <= 0

(* C18.  Radius independence: for every sample (dx, dy) and factor k >= 1  *)
(* with k*dx and k*dy in the int16 range whose absolute values do not      *)
(* overflow (-32767..32767), the estimator returns for (k*dx, k*dy) what   *)
(* it returns for (dx, dy); hence a tracker whose prev_angle is the        *)
(* estimate of one of the two samples computes delta 0 and scroll value 0  *)
(* on the other.                                                           *)
C18_RadiusIndependence ==
    fn \in {"pseudo_angle", "compute_pseudo_angle"}
        => \A k \in ScaleFactors :
              (k * arg[1] \in NonOverflowing /\ k * arg[2] \in NonOverflowing)
                 => LET scaled == IF fn = "pseudo_angle"
                                  THEN pseudo_angle(k * arg[1], k * arg[2])
                                  ELSE compute_pseudo_angle(k * arg[1], k * arg[2])
                        value  == IF fn = "pseudo_angle"
                                  THEN cs_scroll_value(cs_delta(scaled, res))
                                  ELSE tp_scroll_value(tp_delta(scaled, res))
                    IN scaled = res /\ value = 0

\* (3, 4) and (3072, 4096) both have the estimate 585
C18_Witness ==
    /\ fn = "pseudo_angle"
    /\ arg = <<3, 4>>
    /\ res = 585
    /\ pseudo_angle(3072, 4096) = 585
    /\ cs_scroll_value(cs_delta(pseudo_angle(3072, 4096), res)) = 0

C20_ValueBound ==
    (Sampled /\ ret = 1)
        => /\ event.dy \in -(2 * Gain)..(2 * Gain)
           /\ (call.proc = "tp" /\ Magnitude(call.delta) < 1024) => event.dy = 0
           /\ (call.proc = "cs" /\ Magnitude(call.delta) < 103) => event.dy = 0

=============================================================================
